---- MODULE Spec2Model ----
(***************************************************************************)
(* Model of add_files_to_xcode.py: main() changes into the project         *)
(* directory, walks the literal list files_to_add and, for every entry     *)
(* that exists, prints a line and runs one osascript command through       *)
(* run_command(); run_command() catches subprocess.CalledProcessError      *)
(* only.  The environment (directory, files, child processes) is the       *)
(* nondeterministic part; other processes may create or remove the listed  *)
(* files while the script runs.                                            *)
(*                                                                         *)
(* Every per-process variable is a function of the evaluation r: Spec runs *)
(* the script once (evaluation 1), SpecPair runs it twice over the same    *)
(* unchanging filesystem.                                                  *)
(***************************************************************************)
EXTENDS Naturals, Sequences, FiniteSets

VARIABLES
    dirExists,  \* whether project_dir exists on disk
    fs,         \* the entries of the list that exist on disk
    fsChanges,  \* how often other processes have created or removed an entry
    pc,         \* pc[r]: position of evaluation r in the script
    idx,        \* idx[r]: 1-based position of file_path in the list (0 before the loop)
    log,        \* log[r]: history of observable events of evaluation r
    inflight,   \* inflight[r]: list positions whose child process is running
    ret,        \* ret[r]: value run_command has just returned
    caught,     \* caught[r]: e.stderr of the CalledProcessError being handled
    outcome,    \* outcome[r]: how the last subprocess.run call ended
    exc         \* exc[r]: the exception that left main(), or "none"

vars == <<dirExists, fs, fsChanges, pc, idx, log, inflight, ret, caught, outcome, exc>>

Runs == {1, 2}

\* Number of leading entries of files_to_add the model walks.
MaxFiles == 3

\* Number of times other processes create or remove a listed file.
MaxFsChanges == 1

project_dir == "/Users/henryfritz/Personal Projects/PrestigeNative"

files_to_add ==
    << "PrestigeNative/Core/Models/APIEndpoints.swift",
       "PrestigeNative/Core/Models/APIModels.swift",
       "PrestigeNative/Core/Models/PrestigeModels.swift",
       "PrestigeNative/Core/Models/UserModels.swift",
       "PrestigeNative/Core/Networking/APIClient.swift",
       "PrestigeNative/Core/Networking/AuthManager.swift",
       "PrestigeNative/Core/Networking/Services/FriendsService.swift",
       "PrestigeNative/Core/Networking/Services/ProfileService.swift",
       "PrestigeNative/Core/Networking/Services/SpotifyService.swift",
       "PrestigeNative/Features/Authentication/Components/LoadingButton.swift",
       "PrestigeNative/Features/Authentication/ViewModels/LoginViewModel.swift",
       "PrestigeNative/Features/Authentication/Views/AuthenticationView.swift",
       "PrestigeNative/Features/Authentication/Views/LoginView.swift" >>

Min(a, b) == IF a < b THEN a ELSE b

\* The part of the list the model walks.
Files == SubSeq(files_to_add, 1, Min(MaxFiles, Len(files_to_add)))

FileSet == {Files[k] : k \in 1..Len(Files)}

(***************************************************************************)
(* Pure helpers of the script.                                             *)
(***************************************************************************)

\* os.path.exists(file_path), relative to the working directory.
Exists(p) == p \in fs

\* os.path.abspath(file_path) after os.chdir(project_dir).
AbsPath(p) == project_dir \o "/" \o p

\* The f-string of line 46.
OpenCmd(p) == "osascript -e 'tell application \"Xcode\" to open \"" \o AbsPath(p) \o "\";'"

AddingLine(p) == "Adding " \o p \o " to Xcode project..."

WarningLine(p) == "Warning: " \o p \o " does not exist"

ErrorCmdLine(cmd) == "Error running command: " \o cmd

ErrorLine(stderr) == "Error: " \o stderr

ClosingLine == "Files added to Xcode project. Please check Xcode to confirm they appear in the navigator."

\* Captured texts a child process may leave (sequences of characters for
\* stdout, so that str.strip() is computed).
Stdouts == { <<>>, <<" ", "o", "k", "\n">> }

Stderrs == { "execution error: Xcode got an error (-1728)" }

Whitespace == {" ", "\t", "\n", "\r"}

RECURSIVE LStrip(_)
LStrip(s) == IF s # <<>> /\ Head(s) \in Whitespace THEN LStrip(Tail(s)) ELSE s

RECURSIVE RStrip(_)
RStrip(s) ==
    IF s # <<>> /\ s[Len(s)] \in Whitespace THEN RStrip(SubSeq(s, 1, Len(s) - 1)) ELSE s

\* str.strip()
Strip(s) == RStrip(LStrip(s))

\* Values of run_command's result slot.
Unset == [kind |-> "unset", val |-> <<>>]
NoneVal == [kind |-> "None", val |-> <<>>]
StrVal(s) == [kind |-> "str", val |-> s]

\* Events of the history.
Ev(e, a) == [ev |-> e, arg |-> a, rc |-> 0, text |-> ""]
ExitEv(cmd, code, stderr) == [ev |-> "exit", arg |-> cmd, rc |-> code, text |-> stderr]
ExistsEv(p, found) == [ev |-> "exists", arg |-> p, rc |-> IF found THEN 1 ELSE 0, text |-> ""]

\* print(...)
WriteLine(r, line) == Append(log[r], Ev("print", line))

\* file_path of the current iteration.
file_path(r) == Files[idx[r]]

Init ==
    /\ dirExists \in BOOLEAN
    /\ fs \in (IF dirExists THEN SUBSET FileSet ELSE {{}})
    /\ fsChanges = 0
    /\ pc = [r \in Runs |-> "chdir"]
    /\ idx = [r \in Runs |-> 0]
    /\ log = [r \in Runs |-> <<>>]
    /\ inflight = [r \in Runs |-> {}]
    /\ ret = [r \in Runs |-> Unset]
    /\ caught = [r \in Runs |-> ""]
    /\ outcome = [r \in Runs |-> "none"]
    /\ exc = [r \in Runs |-> "none"]

\* An exception nobody catches leaves main(): traceback, exit status 1.
Raise(r, name) ==
    /\ pc' = [pc EXCEPT ![r] = "crashed"]
    /\ exc' = [exc EXCEPT ![r] = name]

\* Variant of Chdir: a missing directory is ignored and the loop runs anyway.
ChdirIgnoreMissing(r) ==
    /\ pc[r] = "chdir"
    /\ pc' = [pc EXCEPT ![r] = "for"]
    /\ UNCHANGED <<dirExists, fs, fsChanges, idx, log, inflight, ret, caught, outcome, exc>>

\* os.chdir(project_dir)
Chdir(r) ==
    /\ pc[r] = "chdir"
    /\ IF dirExists
       THEN /\ pc' = [pc EXCEPT ![r] = "for"]
            /\ exc' = exc
       ELSE Raise(r, "FileNotFoundError")
    /\ UNCHANGED <<dirExists, fs, fsChanges, idx, log, inflight, ret, caught, outcome>>

\* for file_path in files_to_add:
ForNext(r) ==
    /\ pc[r] = "for"
    /\ IF idx[r] < Len(Files)
       THEN /\ idx' = [idx EXCEPT ![r] = idx[r] + 1]
            /\ pc' = [pc EXCEPT ![r] = "exists"]
       ELSE /\ idx' = idx
            /\ pc' = [pc EXCEPT ![r] = "closing"]
    /\ UNCHANGED <<dirExists, fs, fsChanges, log, inflight, ret, caught, outcome, exc>>

\* if os.path.exists(file_path):
CheckExists(r) ==
    /\ pc[r] = "exists"
    /\ log' = [log EXCEPT ![r] = Append(log[r], ExistsEv(file_path(r), Exists(file_path(r))))]
    /\ pc' = [pc EXCEPT ![r] = IF Exists(file_path(r)) THEN "adding" ELSE "warning"]
    /\ UNCHANGED <<dirExists, fs, fsChanges, idx, inflight, ret, caught, outcome, exc>>

\* print(f"Adding {file_path} to Xcode project...")
PrintAdding(r) ==
    /\ pc[r] = "adding"
    /\ log' = [log EXCEPT ![r] = WriteLine(r, AddingLine(file_path(r)))]
    /\ pc' = [pc EXCEPT ![r] = "call"]
    /\ UNCHANGED <<dirExists, fs, fsChanges, idx, inflight, ret, caught, outcome, exc>>

\* cmd = f'osascript ...'; run_command(cmd)
CallRunCommand(r) ==
    /\ pc[r] = "call"
    /\ log' = [log EXCEPT ![r] = Append(log[r], Ev("call", OpenCmd(file_path(r))))]
    /\ outcome' = [outcome EXCEPT ![r] = "none"]
    /\ pc' = [pc EXCEPT ![r] = "spawn"]
    /\ UNCHANGED <<dirExists, fs, fsChanges, idx, inflight, ret, caught, exc>>

\* Variant of Spawn: the child is started and not waited for (Popen without wait).
SpawnNoWait(r) ==
    /\ pc[r] = "spawn"
    /\ inflight' = [inflight EXCEPT ![r] = inflight[r] \cup {idx[r]}]
    /\ log' = [log EXCEPT ![r] = Append(log[r], Ev("start", OpenCmd(file_path(r))))]
    /\ ret' = [ret EXCEPT ![r] = NoneVal]
    /\ pc' = [pc EXCEPT ![r] = "returned"]
    /\ UNCHANGED <<dirExists, fs, fsChanges, idx, caught, outcome, exc>>

\* subprocess.run(...) starts the shell: the child runs and the caller blocks,
\* or the start itself fails with an OSError, which run_command does not catch.
Spawn(r) ==
    /\ pc[r] = "spawn"
    /\ \E started \in BOOLEAN :
         IF started
         THEN /\ inflight' = [inflight EXCEPT ![r] = inflight[r] \cup {idx[r]}]
              /\ log' = [log EXCEPT ![r] = Append(log[r], Ev("start", OpenCmd(file_path(r))))]
              /\ pc' = [pc EXCEPT ![r] = "wait"]
              /\ UNCHANGED <<outcome, exc>>
         ELSE /\ outcome' = [outcome EXCEPT ![r] = "spawn_error"]
              /\ Raise(r, "OSError")
              /\ UNCHANGED <<inflight, log>>
    /\ UNCHANGED <<dirExists, fs, fsChanges, idx, ret, caught>>

\* The child ends and subprocess.run returns or raises: text=True decodes the
\* captured output (UnicodeDecodeError is not caught), check=True turns a
\* non-zero exit into CalledProcessError, otherwise stdout.strip() is returned.
ChildExit(r) ==
    /\ pc[r] = "wait"
    /\ \E code \in {0, 1}, so \in Stdouts, se \in Stderrs, decodable \in BOOLEAN :
         /\ inflight' = [inflight EXCEPT ![r] = inflight[r] \ {idx[r]}]
         /\ log' = [log EXCEPT ![r] = Append(log[r], ExitEv(OpenCmd(file_path(r)), code, se))]
         /\ IF ~decodable
            THEN /\ outcome' = [outcome EXCEPT ![r] = "decode_error"]
                 /\ Raise(r, "UnicodeDecodeError")
                 /\ UNCHANGED <<ret, caught>>
            ELSE IF code = 0
            THEN /\ outcome' = [outcome EXCEPT ![r] = "ok"]
                 /\ ret' = [ret EXCEPT ![r] = StrVal(Strip(so))]
                 /\ pc' = [pc EXCEPT ![r] = "returned"]
                 /\ UNCHANGED <<caught, exc>>
            ELSE /\ outcome' = [outcome EXCEPT ![r] = "nonzero"]
                 /\ caught' = [caught EXCEPT ![r] = se]
                 /\ pc' = [pc EXCEPT ![r] = "except"]
                 /\ UNCHANGED <<ret, exc>>
    /\ UNCHANGED <<dirExists, fs, fsChanges, idx>>

\* Variant of Except: only the command line is printed, e.stderr is dropped.
ExceptOneLine(r) ==
    /\ pc[r] = "except"
    /\ log' = [log EXCEPT ![r] = WriteLine(r, ErrorCmdLine(OpenCmd(file_path(r))))]
    /\ ret' = [ret EXCEPT ![r] = NoneVal]
    /\ caught' = [caught EXCEPT ![r] = ""]
    /\ pc' = [pc EXCEPT ![r] = "returned"]
    /\ UNCHANGED <<dirExists, fs, fsChanges, idx, inflight, outcome, exc>>

\* except subprocess.CalledProcessError as e: two prints, return None
Except(r) ==
    /\ pc[r] = "except"
    /\ log' = [log EXCEPT ![r] =
                 log[r] \o << Ev("print", ErrorCmdLine(OpenCmd(file_path(r)))),
                              Ev("print", ErrorLine(caught[r])) >>]
    /\ ret' = [ret EXCEPT ![r] = NoneVal]
    /\ caught' = [caught EXCEPT ![r] = ""]
    /\ pc' = [pc EXCEPT ![r] = "returned"]
    /\ UNCHANGED <<dirExists, fs, fsChanges, idx, inflight, outcome, exc>>

\* Variant of Discard: a failed command (None) is run again.
DiscardRetry(r) ==
    /\ pc[r] = "returned"
    /\ ret' = [ret EXCEPT ![r] = Unset]
    /\ pc' = [pc EXCEPT ![r] = IF ret[r] = NoneVal THEN "call" ELSE "for"]
    /\ UNCHANGED <<dirExists, fs, fsChanges, idx, log, inflight, caught, outcome, exc>>

\* main() drops run_command's result and goes on with the loop.
Discard(r) ==
    /\ pc[r] = "returned"
    /\ ret' = [ret EXCEPT ![r] = Unset]
    /\ pc' = [pc EXCEPT ![r] = "for"]
    /\ UNCHANGED <<dirExists, fs, fsChanges, idx, log, inflight, caught, outcome, exc>>

\* Variant of PrintWarning: the else branch falls through to the command.
PrintWarningFallThrough(r) ==
    /\ pc[r] = "warning"
    /\ log' = [log EXCEPT ![r] = WriteLine(r, WarningLine(file_path(r)))]
    /\ pc' = [pc EXCEPT ![r] = "call"]
    /\ UNCHANGED <<dirExists, fs, fsChanges, idx, inflight, ret, caught, outcome, exc>>

\* print(f"Warning: {file_path} does not exist")
PrintWarning(r) ==
    /\ pc[r] = "warning"
    /\ log' = [log EXCEPT ![r] = WriteLine(r, WarningLine(file_path(r)))]
    /\ pc' = [pc EXCEPT ![r] = "for"]
    /\ UNCHANGED <<dirExists, fs, fsChanges, idx, inflight, ret, caught, outcome, exc>>

\* print("Files added to Xcode project. ..."); main() returns, exit status 0.
PrintClosing(r) ==
    /\ pc[r] = "closing"
    /\ log' = [log EXCEPT ![r] = WriteLine(r, ClosingLine)]
    /\ pc' = [pc EXCEPT ![r] = "done"]
    /\ UNCHANGED <<dirExists, fs, fsChanges, idx, inflight, ret, caught, outcome, exc>>

\* Another process creates or removes one of the listed files.
FsChange ==
    /\ dirExists
    /\ fsChanges < MaxFsChanges
    /\ \E p \in FileSet :
         fs' = (IF p \in fs THEN fs \ {p} ELSE fs \cup {p})
    /\ fsChanges' = fsChanges + 1
    /\ UNCHANGED <<dirExists, pc, idx, log, inflight, ret, caught, outcome, exc>>

\* One step of evaluation r.
Step(r) ==
    \/ Chdir(r)
    \/ ForNext(r)
    \/ CheckExists(r)
    \/ PrintAdding(r)
    \/ CallRunCommand(r)
    \/ Spawn(r)
    \/ ChildExit(r)
    \/ Except(r)
    \/ Discard(r)
    \/ PrintWarning(r)
    \/ PrintClosing(r)

Next ==
    \/ Step(1)
    \/ FsChange

Spec == Init /\ [][Next]_vars

\* A second evaluation of the script over the same directory and files.
NextPair ==
    \/ Step(1)
    \/ Step(2)

SpecPair == Init /\ [][NextPair]_vars

(***************************************************************************)
(* Views of the history.                                                   *)
(***************************************************************************)

Args(r, e) ==
    LET s == SelectSeq(log[r], LAMBDA x : x.ev = e)
    IN  [k \in 1..Len(s) |-> s[k].arg]

\* Lines written to standard output, in order.
Out(r) == Args(r, "print")

\* Command texts handed to run_command, in order.
Cmds(r) == Args(r, "call")

\* Paths whose existence was checked, in order.
Checked(r) == Args(r, "exists")

Count(s, x) == Cardinality({k \in DOMAIN s : s[k] = x})

IsPrefix(s, t) == Len(s) <= Len(t) /\ s = SubSeq(t, 1, Len(s))

Front(s) == SubSeq(s, 1, Len(s) - 1)

Terminated(r) == pc[r] \in {"done", "crashed"}

\* The existence checks made, in order, each with the path and what it found.
Checks(r) == SelectSeq(log[r], LAMBDA x : x.ev = "exists")

\* The checks among s that found their path.
Found(s) == SelectSeq(s, LAMBDA x : x.rc = 1)

\* The commands that the checks s call for.
OpenCmds(s) == [k \in 1..Len(Found(s)) |-> OpenCmd(Found(s)[k].arg)]

\* Exit codes of the commands that ended, in order.
ExitCodes(r) ==
    LET s == SelectSeq(log[r], LAMBDA x : x.ev = "exit")
    IN  [k \in 1..Len(s) |-> s[k].rc]

(***************************************************************************)
(* Properties.                                                             *)
(***************************************************************************)

\* Checks whose branch of the if has been taken as far as the command call.
Issuable(r) == IF pc[r] \in {"adding", "call"} THEN Front(Checks(r)) ELSE Checks(r)

\* C1: when the working directory exists, the paths are checked in list
\* order and the commands issued are exactly the open commands of the paths
\* that existed when they were checked, one per path, in list order: none
\* missing, none repeated, none reordered.
C1_OneCommandPerExistingPath ==
    dirExists =>
        /\ IsPrefix(Checked(1), Files)
        /\ Cmds(1) = OpenCmds(Issuable(1))

\* A finished run that issued two commands of which the first exited
\* non-zero, and one of whose files was removed after it had been checked.
C1_Witness ==
    /\ pc[1] = "done"
    /\ Len(Cmds(1)) >= 2
    /\ ExitCodes(1)[1] = 1
    /\ \E k \in DOMAIN Checks(1) : Checks(1)[k].rc = 1 /\ ~Exists(Checks(1)[k].arg)

\* C2: a path that does not exist when it is checked gets no command and exactly one
\* warning line naming it (as soon as the else branch has printed), no
\* exception comes from it, and a run that has ended went on to check the
\* next list entry.
C2_MissingPathWarnedAndSkipped ==
    \A k \in 1..Len(Checked(1)) :
        LET p == Checked(1)[k] IN
        Checks(1)[k].rc = 0 =>
            /\ Count(Cmds(1), OpenCmd(p)) = 0
            /\ Count(Out(1), WarningLine(p)) =
                 (IF k = Len(Checked(1)) /\ pc[1] = "warning" THEN 0 ELSE 1)
            /\ (k = Len(Checked(1)) => exc[1] = "none")
            /\ (Terminated(1) /\ k < Len(Files) => Len(Checked(1)) > k)

\* A finished run whose first path was missing and whose second existed.
C2_Witness ==
    /\ pc[1] = "done"
    /\ Checks(1)[1].rc = 0
    /\ Checks(1)[2].rc = 1
    /\ Count(Out(1), WarningLine(Files[1])) = 1

\* C3: when the working directory does not exist the run stops at the change
\* of directory with FileNotFoundError: nothing is checked, issued or printed.
C3_MissingDirectoryAborts ==
    ~dirExists =>
        /\ log[1] = <<>>
        /\ inflight[1] = {}
        /\ pc[1] \in {"chdir", "crashed"}
        /\ (pc[1] = "crashed" => exc[1] = "FileNotFoundError")

\* The run has failed at os.chdir.
C3_Witness == ~dirExists /\ pc[1] = "crashed"

\* C4: a failing command never stops the batch: when a run in an existing
\* working directory has ended, every list entry has been checked and as many
\* commands were attempted as list entries existed when checked.
C4_FailureNeverStopsBatch ==
    dirExists /\ Terminated(1) =>
        /\ Checked(1) = Files
        /\ Len(Cmds(1)) = Len(Found(Checks(1)))

Failures == {"nonzero", "spawn_error", "decode_error"}

\* The exit event of the command that ended last.
LastExit(r) ==
    LET s == SelectSeq(log[r], LAMBDA x : x.ev = "exit") IN s[Len(s)]

\* C5: once run_command is through with a command that failed (non-zero exit
\* or an error raised while executing it), it has returned None to main and the
\* last two lines of standard output are the failing command text and then
\* the captured error text.
C5_FailureReportedAndReturned ==
    outcome[1] \in Failures /\ pc[1] \in {"returned", "crashed"} =>
        /\ pc[1] = "returned"
        /\ ret[1] = NoneVal
        /\ Len(Out(1)) >= 2
        /\ Out(1)[Len(Out(1)) - 1] = ErrorCmdLine(OpenCmd(file_path(1)))
        /\ outcome[1] # "spawn_error"
        /\ Out(1)[Len(Out(1))] = ErrorLine(LastExit(1).text)

\* C6: a run in an existing working directory all of whose commands were
\* started and have ended finishes normally, with the completion message
\* printed exactly once and last.
C6_ClosingMessageOnceAndLast ==
    dirExists /\ Terminated(1) /\ outcome[1] # "spawn_error" /\ inflight[1] = {} =>
        /\ pc[1] = "done"
        /\ Count(Out(1), ClosingLine) = 1
        /\ Out(1)[Len(Out(1))] = ClosingLine

\* C7: only a missing working directory ends the run abnormally: whenever
\* the directory exists no exception leaves main.
C7_OnlyDirectoryNotFoundAborts ==
    /\ exc[1] \in {"none", "FileNotFoundError"}
    /\ (dirExists => pc[1] # "crashed")

\* Number of events of kind e among the first n of the history.
CountEv(r, e, n) == Cardinality({k \in 1..n : log[r][k].ev = e})

\* C8: at most one child process runs at a time, and when the existence of
\* a list entry is checked every command issued before has been started and
\* has ended.
C8_StrictlySequential ==
    /\ Cardinality(inflight[1]) <= 1
    /\ (pc[1] = "exists" => inflight[1] = {})
    /\ \A j \in DOMAIN log[1] :
         log[1][j].ev = "exists" =>
            /\ CountEv(1, "call", j - 1) = CountEv(1, "start", j - 1)
            /\ CountEv(1, "start", j - 1) = CountEv(1, "exit", j - 1)

\* The third entry is being checked after two commands have run to their end.
C8_Witness ==
    /\ Len(Checked(1)) >= 3
    /\ Len(ExitCodes(1)) >= 2

\* C9: two evaluations over the same list and the same files that have both
\* ended have issued the same sequence of commands, whatever the outcome of
\* their commands.
C9_SameCommandsInBothEvaluations ==
    Terminated(1) /\ Terminated(2) => Cmds(1) = Cmds(2)

\* The exit event of command cmd.
ExitOf(r, cmd) ==
    LET s == SelectSeq(log[r], LAMBDA x : x.ev = "exit" /\ x.arg = cmd) IN s[1]

\* The lines the checked list entry c contributes to a completed run.
Block(r, c) ==
    IF c.rc = 0 THEN << WarningLine(c.arg) >>
    ELSE << AddingLine(c.arg) >> \o
         (IF ExitOf(r, OpenCmd(c.arg)).rc # 0
          THEN << ErrorCmdLine(OpenCmd(c.arg)),
                  ErrorLine(ExitOf(r, OpenCmd(c.arg)).text) >>
          ELSE << >>)

RECURSIVE Blocks(_, _)
Blocks(r, s) == IF s = <<>> THEN <<>> ELSE Block(r, Head(s)) \o Blocks(r, Tail(s))

\* C10: the output of a completed run is one block per list entry in list
\* order (a Warning line, or an Adding line followed by the two error lines
\* exactly when the entry's command exited non-zero) and then the closing
\* message; and the Adding line of an entry is always printed before its
\* command is handed to run_command.
C10_OutputIsBlocksThenClosing ==
    /\ pc[1] = "done" =>
         /\ Checked(1) = Files
         /\ Out(1) = Blocks(1, Checks(1)) \o << ClosingLine >>
    /\ \A j \in DOMAIN log[1] :
         log[1][j].ev \in {"call", "start"} =>
            \E i \in 1..(j - 1), p \in FileSet :
                /\ log[1][j].arg = OpenCmd(p)
                /\ log[1][i] = Ev("print", AddingLine(p))

\* A completed run with a missing entry, a command that succeeded and one
\* that failed.
C10_Witness ==
    /\ pc[1] = "done"
    /\ \E k \in DOMAIN Checks(1) : Checks(1)[k].rc = 0
    /\ \E a, b \in DOMAIN ExitCodes(1) : ExitCodes(1)[a] = 0 /\ ExitCodes(1)[b] = 1

====
